---- MODULE Spec2Model ----
(***************************************************************************)
(* A model of convert.py: the batch rewrite of git origin URLs.            *)
(*                                                                         *)
(* Strings are sequences of one-character strings, so that Python's        *)
(* str.replace, str.strip, str.rstrip, `in` and endswith are computed on   *)
(* the characters and not assumed.  None is a value no string equals.      *)
(***************************************************************************)
EXTENDS Naturals, Sequences, FiniteSets

VARIABLES
    pc,                 \* position of main(), or of the get_new_url harness
    batch,              \* --batch
    regex,              \* --regex
    find,               \* main's local `find` (option value, then cleaned / prompted)
    replace,            \* main's local `replace`
    repos,              \* what find_git_repos returned (until the selection is made)
    display_repos,      \* normalised, deduplicated, sorted discovery result
    selected_repos,     \* the repositories the loop iterates
    idx,                \* 1-based position of the for loop in selected_repos
    current_url,        \* stdout of `git remote get-url origin`, stripped
    new_url,            \* get_new_url(current_url, ...)
    lines,              \* parsed lines of the .gitmodules query of this repository
    sub_i,              \* 1-based position of the loop over lines
    submodule_changes,  \* main's local flag
    success_count,
    fail_count,
    skip_count,
    exit_code,          \* process exit code; NoExit while running
    message,            \* why the run ended (the last console message)
    origin,             \* git state: origin of each repository, once the run read it
    gitmodules,         \* file system: whether .gitmodules exists in this repository
    cmds,               \* history: the git commands issued for this repository, in order
    sub_failed,         \* history: a submodule write or sync of this repository failed
    processed,          \* history: the cwd of every repository the loop reached, in order
    set_urls,           \* history: the URL the run set as origin, per repository
    at_start,           \* history: the three counters when the loop reached this repository
    prompts,            \* history: every interactive prompt shown, in order
    checked,            \* history: the choices the checkbox returned
    regex_errors,       \* history: number of "Regex Error" reports printed
    applied             \* harness: results of successive get_new_url applications

vars == << pc, batch, regex, find, replace, repos, display_repos, selected_repos, idx,
           current_url, new_url, lines, sub_i, submodule_changes,
           success_count, fail_count, skip_count, exit_code, message,
           origin, gitmodules, cmds, sub_failed, processed, set_urls, at_start,
           prompts, checked, regex_errors, applied >>

\* ------------------------------------------------------------------------
\* Bounds of the model
\* ------------------------------------------------------------------------

\* number of repository directories under the scanned path
NumRepos == 2

\* longest list find_git_repos returns (longer than NumRepos: it may repeat a path)
MaxFound == 3

\* most lines the .gitmodules query prints for one repository
MaxSubs == 2

\* longest `current` string the pure-function specification enumerates
MaxUrlLen == 3

\* longest find / replace string the pure-function specification enumerates
MaxPatLen == 3

\* ------------------------------------------------------------------------
\* Python strings
\* ------------------------------------------------------------------------

\* Python's None (convert.py returns it for "no change"); not a string.
None == <<"<None>">>

\* bool(s) of an Optional[str]: None and "" are falsy.
Truthy(s) == s # None /\ s # <<>>

\* s[i:i+len(f)] == f
MatchesAt(s, f, i) ==
    /\ i >= 1
    /\ i + Len(f) - 1 <= Len(s)
    /\ \A k \in 1..Len(f) : s[i + k - 1] = f[k]

\* s.find(f, start), 1-based; 0 when f does not occur at or after start.
RECURSIVE StrFind(_, _, _)
StrFind(s, f, start) ==
    IF start + Len(f) - 1 > Len(s) THEN 0
    ELSE IF MatchesAt(s, f, start) THEN start
    ELSE StrFind(s, f, start + 1)

\* f in s
Contains(f, s) == StrFind(s, f, 1) # 0

\* s.endswith(suffix)
EndsWith(s, suffix) ==
    /\ Len(suffix) <= Len(s)
    /\ SubSeq(s, Len(s) - Len(suffix) + 1, Len(s)) = suffix

\* s.rstrip(ch): every trailing ch is removed, not only the last one.
RECURSIVE RStrip(_, _)
RStrip(s, ch) ==
    IF s # <<>> /\ s[Len(s)] = ch THEN RStrip(SubSeq(s, 1, Len(s) - 1), ch) ELSE s

\* s.lstrip(ch)
RECURSIVE LStrip(_, _)
LStrip(s, ch) ==
    IF s # <<>> /\ s[1] = ch THEN LStrip(SubSeq(s, 2, Len(s)), ch) ELSE s

\* s.strip(): leading and trailing whitespace removed.
Strip(s) == LStrip(RStrip(s, " "), " ")

\* s.replace(old, new) for a non-empty old: a left-to-right scan that
\* replaces each occurrence found and resumes after it (occurrences never
\* overlap).
RECURSIVE StrReplaceFrom(_, _, _, _)
StrReplaceFrom(s, old, new, i) ==
    LET j == StrFind(s, old, i) IN
    IF j = 0 THEN SubSeq(s, i, Len(s))
    ELSE SubSeq(s, i, j - 1) \o new \o StrReplaceFrom(s, old, new, j + Len(old))

\* s.replace(old, new); an empty old puts new around every character.
RECURSIVE Interleave(_, _, _)
Interleave(s, new, i) ==
    IF i > Len(s) THEN new ELSE new \o <<s[i]>> \o Interleave(s, new, i + 1)

\* a replace that stops after the first occurrence (str.replace(old, new, 1))
StrReplaceFirst(s, old, new) ==
    LET j == StrFind(s, old, 1) IN
    IF j = 0 THEN s
    ELSE SubSeq(s, 1, j - 1) \o new \o SubSeq(s, j + Len(old), Len(s))

StrReplace(s, old, new) ==
    IF old = <<>> THEN Interleave(s, new, 1) ELSE StrReplaceFrom(s, old, new, 1)

\* ------------------------------------------------------------------------
\* Python regular expressions, for the patterns of the model: a pattern is
\* a sequence of literal characters, "." (any character) and "(".  A "("
\* is never closed in these patterns, so a pattern holding one does not
\* compile (re.error).  Replacement strings hold no backslash, so re.sub
\* inserts them literally.
\* ------------------------------------------------------------------------

\* re.compile(pattern) succeeds
RegexCompiles(pattern) == \A k \in 1..Len(pattern) : pattern[k] # "("

\* the pattern matches s at position i
RegexMatchesAt(s, p, i) ==
    /\ i >= 1
    /\ i + Len(p) - 1 <= Len(s)
    /\ \A k \in 1..Len(p) : p[k] = "." \/ s[i + k - 1] = p[k]

\* position of the leftmost match at or after start, 0 when there is none
RECURSIVE RegexFind(_, _, _)
RegexFind(s, p, start) ==
    IF start + Len(p) - 1 > Len(s) THEN 0
    ELSE IF RegexMatchesAt(s, p, start) THEN start
    ELSE RegexFind(s, p, start + 1)

\* re.search(pattern, s) is not None
RegexSearch(pattern, s) == RegexFind(s, pattern, 1) # 0

\* re.sub(pattern, repl, s): every non-overlapping match, leftmost first
RECURSIVE RegexSubFrom(_, _, _, _)
RegexSubFrom(s, p, new, i) ==
    LET j == RegexFind(s, p, i) IN
    IF j = 0 THEN SubSeq(s, i, Len(s))
    ELSE SubSeq(s, i, j - 1) \o new \o RegexSubFrom(s, p, new, j + Len(p))

RegexSub(pattern, repl, s) == RegexSubFrom(s, pattern, repl, 1)

\* ------------------------------------------------------------------------
\* get_new_url
\* ------------------------------------------------------------------------

\* get_new_url prints "Regex Error" (the except re.error branch)
RegexError(find_, regex_) == regex_ /\ ~RegexCompiles(find_)

\* find[:-1] in place of find.rstrip('/'): one trailing character removed
StripLastSlash(find_) == SubSeq(find_, 1, Len(find_) - 1)

\* find.rstrip('/') of the trailing-slash branch
StrippedFind(find_) == RStrip(find_, "/")

GetNewUrl(current, find_, replace_, regex_) ==
    IF regex_
    THEN IF ~RegexCompiles(find_) THEN None
         ELSE IF RegexSearch(find_, current) THEN RegexSub(find_, replace_, current)
         ELSE None
    ELSE IF Contains(find_, current) THEN StrReplace(current, find_, replace_)
         ELSE IF EndsWith(find_, <<"/">>) /\ Contains(StrippedFind(find_), current)
              THEN IF StrippedFind(find_) # <<>>
                   THEN StrReplace(current, StrippedFind(find_), replace_)
                   ELSE None
              ELSE None

\* new_url is not None and new_url != current_url: the test without the
\* truthiness of new_url
UrlDiffers(new, current) == new # None /\ new # current

\* new_url and new_url != current_url (lines 240 and 279)
UrlChanged(new, current) == Truthy(new) /\ new # current

\* ------------------------------------------------------------------------
\* Paths and discovery
\* ------------------------------------------------------------------------

\* the repository directories under the scanned path
Repos == 1..NumRepos

\* a Path as find_git_repos returns it: relative to the scanned path
RawPath(d) == [dir |-> d, abs |-> FALSE]

RawPaths == {RawPath(d) : d \in Repos}

\* Path.resolve(): the absolute form of the same directory
Resolve(p) == [dir |-> p.dir, abs |-> TRUE]

\* the repository whose git state a command run with cwd = p acts on
Root(p) == p.dir

Range(seq) == {seq[i] : i \in DOMAIN seq}

\* sorted(S) of a set of paths that are all raw or all resolved
RECURSIVE SortedList(_)
SortedList(S) ==
    IF S = {} THEN <<>>
    ELSE LET m == CHOOSE x \in S : \A y \in S : x.dir <= y.dir
         IN <<m>> \o SortedList(S \ {m})

\* the list as it is, neither deduplicated nor sorted
KeepAll(seq) == seq

\* sorted(list(set(display_repos)))
Dedupe(seq) == SortedList(Range(seq))

\* lines 158-164: resolve every path (or keep them all as found when
\* resolve raises), then deduplicate and sort
DisplayRepos(found, resolve_ok) ==
    Dedupe(IF resolve_ok THEN [i \in DOMAIN found |-> Resolve(found[i])] ELSE found)

\* what find_git_repos can return: any short list of paths; the tests stub
\* it, and main deduplicates its result, so a path may come twice
FoundLists == UNION {[1..n -> RawPaths] : n \in 0..MaxFound}

\* ------------------------------------------------------------------------
\* Inputs and the collaborators' answers
\* ------------------------------------------------------------------------

NoExit == 99

\* the repository has no remote named origin (get-url exits non-zero)
NoOrigin == <<"<no origin>">>

\* the run has not read this repository's origin yet
NotRead == <<"<not read>">>

\* origin URLs and submodule URLs of the repositories
Urls == { <<"a">>, <<"b">> }

\* what `git remote get-url origin` can find in a repository
OriginStates == Urls \cup {NoOrigin}

\* --find: omitted, or a string (to be stripped; "(" is no valid regex)
FindArgs == { None, <<" ", "a", "/">>, <<"(">> }

\* --replace: omitted, or a string (to be stripped)
ReplaceArgs == { None, <<"b", " ">> }

\* questionary.text(...).ask() for find: None when cancelled
FindAnswers == { None, <<>>, <<"a">> }

\* questionary.text(...).ask() for replace: None when cancelled; "" deletes
\* the match
ReplaceAnswers == { None, <<>> }

\* the checked choices, in the order shown, of the positions I
RECURSIVE Pick(_, _, _)
Pick(seq, I, i) ==
    IF i > Len(seq) THEN <<>>
    ELSE (IF i \in I THEN <<seq[i]>> ELSE <<>>) \o Pick(seq, I, i + 1)

\* questionary.checkbox(...).ask(): None when cancelled, else the checked
\* choices
CheckboxAnswers(display) ==
    {[none |-> TRUE, items |-> <<>>]}
    \cup {[none |-> FALSE, items |-> Pick(display, I, 1)] : I \in SUBSET DOMAIN display}

\* one line of `git config -f .gitmodules --get-regexp`, as line.split(" ", 1)
\* sees it: a key, and a URL if the line holds a space
LineChoices(i) ==
    {[key |-> i, sep |-> FALSE, url |-> <<>>]}
    \cup {[key |-> i, sep |-> TRUE, url |-> u] : u \in Urls}

LineLists ==
    UNION {{l \in [1..n -> UNION {LineChoices(i) : i \in 1..n}] :
               \A i \in 1..n : l[i].key = i} : n \in 1..MaxSubs}

\* the query's outcome: a non-zero exit code, or its lines
QueryResults ==
    {[ok |-> FALSE, lines |-> <<>>]} \cup {[ok |-> TRUE, lines |-> l] : l \in LineLists}

\* a git command issued with cwd = repo
Cmd(op, repo, key, arg, ok) == [op |-> op, cwd |-> repo, key |-> key, arg |-> arg, ok |-> ok]

\* ------------------------------------------------------------------------
\* main
\* ------------------------------------------------------------------------

\* lines 146-149, 195-196, 200-201: strip a value that is neither None nor ""
Clean(s) == IF Truthy(s) THEN Strip(s) ELSE s

\* raise typer.Exit(code)
Exit(code, why) ==
    /\ pc' = "exit"
    /\ exit_code' = code
    /\ message' = why

\* the loop iterating every displayed repository, whatever was checked
AllDisplayed(display, answer) == display

\* line 186: the loop iterates what the checkbox returned
SelectedRepos(display, answer) == answer.items

\* lines 233-234: a failing get-url prints "Skipping origin update" and
\* touches no counter
GetUrlFailedOutcome == "none"

\* a failed fetch counted as a failure
FetchOutcomeStrict(ok) == IF ok THEN "success" ELSE "failed"

\* lines 251-258: the URL update counts as a success, fetch failed or not
FetchOutcome(ok) == "success"

\* the submodule stage skipped for a repository without an origin remote
SkipSubmodulesPc(outcome) == IF outcome = "no_origin" THEN "next_repo" ELSE "gitmodules"

\* lines 263-265: the submodule stage follows the origin stage on every path
AfterOriginPc(outcome) == "gitmodules"

\* fetch after set-url whether it succeeded or not
AlwaysFetchPc(ok) == "fetch"

\* lines 244-250: fetch only after a successful set-url
AfterSetUrlPc(ok) == IF ok THEN "fetch" ELSE AfterOriginPc("failed")

\* the counters after one origin outcome
Tally(outcome) ==
    /\ success_count' = success_count + (IF outcome = "success" THEN 1 ELSE 0)
    /\ fail_count' = fail_count + (IF outcome = "failed" THEN 1 ELSE 0)
    /\ skip_count' = skip_count + (IF outcome = "skipped" THEN 1 ELSE 0)

\* the "Regex Error" reports after one get_new_url call
Reported == regex_errors + (IF RegexError(find, regex) THEN 1 ELSE 0)

\* the repository the loop is at
Repo == selected_repos[idx]

Init ==
    /\ pc = "start"
    /\ batch \in BOOLEAN
    /\ regex \in BOOLEAN
    /\ find \in FindArgs
    /\ replace \in ReplaceArgs
    /\ repos = <<>>
    /\ display_repos = <<>>
    /\ selected_repos = <<>>
    /\ idx = 0
    /\ current_url = <<>>
    /\ new_url = None
    /\ lines = <<>>
    /\ sub_i = 0
    /\ submodule_changes = FALSE
    /\ success_count = 0
    /\ fail_count = 0
    /\ skip_count = 0
    /\ exit_code = NoExit
    /\ message = ""
    /\ origin = [r \in Repos |-> NotRead]
    /\ gitmodules = FALSE
    /\ cmds = <<>>
    /\ sub_failed = FALSE
    /\ processed = <<>>
    /\ set_urls = [r \in Repos |-> None]
    /\ at_start = <<0, 0, 0>>
    /\ prompts = <<>>
    /\ checked = <<>>
    /\ regex_errors = 0
    /\ applied = <<>>

\* lines 141-155: path check, input cleaning, discovery
Start ==
    /\ pc = "start"
    /\ \E exists \in BOOLEAN, found \in FoundLists :
         IF ~exists
         THEN Exit(1, "bad_path") /\ UNCHANGED <<find, replace, repos>>
         ELSE /\ find' = Clean(find)
              /\ replace' = Clean(replace)
              /\ repos' = found
              /\ IF found = <<>>
                 THEN Exit(0, "no_repos")
                 ELSE pc' = "normalise" /\ UNCHANGED <<exit_code, message>>
    /\ UNCHANGED << batch, regex, display_repos, selected_repos, idx, current_url,
                    new_url, lines, sub_i, submodule_changes, success_count,
                    fail_count, skip_count, origin, gitmodules, cmds, sub_failed,
                    processed, set_urls, at_start, prompts, checked, regex_errors,
                    applied >>

\* lines 157-166: resolve, deduplicate and sort the discovered paths
Normalise ==
    /\ pc = "normalise"
    /\ \E resolve_ok \in BOOLEAN :
         display_repos' = DisplayRepos(repos, resolve_ok)
    /\ pc' = "select"
    /\ UNCHANGED << batch, regex, find, replace, repos, selected_repos, idx,
                    current_url, new_url, lines, sub_i, submodule_changes,
                    success_count, fail_count, skip_count, exit_code, message,
                    origin, gitmodules, cmds, sub_failed, processed, set_urls,
                    at_start, prompts, checked, regex_errors, applied >>

\* lines 168-190: the checkbox selection (skipped in batch mode)
Select ==
    /\ pc = "select"
    /\ repos' = <<>>
    /\ IF batch
       THEN /\ selected_repos' = display_repos
            /\ pc' = "ask_find"
            /\ UNCHANGED <<prompts, checked, exit_code, message>>
       ELSE \E ans \in CheckboxAnswers(display_repos) :
              /\ prompts' = Append(prompts, "checkbox")
              /\ checked' = ans.items
              /\ IF ans.none
                 THEN Exit(0, "cancelled") /\ UNCHANGED selected_repos
                 ELSE /\ selected_repos' = SelectedRepos(display_repos, ans)
                      /\ IF selected_repos' = <<>>
                         THEN Exit(0, "none_selected")
                         ELSE pc' = "ask_find" /\ UNCHANGED <<exit_code, message>>
    /\ UNCHANGED << batch, regex, find, replace, display_repos, idx, current_url,
                    new_url, lines, sub_i, submodule_changes, success_count,
                    fail_count, skip_count, origin, gitmodules, cmds, sub_failed,
                    processed, set_urls, at_start, regex_errors, applied >>

\* lines 193-196: prompt for find when the option was omitted
AskFind ==
    /\ pc = "ask_find"
    /\ pc' = "ask_replace"
    /\ IF find = None
       THEN \E ans \in FindAnswers :
              /\ find' = Clean(ans)
              /\ prompts' = Append(prompts, "find")
       ELSE UNCHANGED <<find, prompts>>
    /\ UNCHANGED << batch, regex, replace, repos, display_repos, selected_repos, idx,
                    current_url, new_url, lines, sub_i, submodule_changes,
                    success_count, fail_count, skip_count, exit_code, message,
                    origin, gitmodules, cmds, sub_failed, processed, set_urls,
                    at_start, regex_errors, checked, applied >>

\* lines 198-210: prompt for replace when omitted, then the cancellation
\* and empty-find checks
AskReplace ==
    /\ pc = "ask_replace"
    /\ IF replace = None
       THEN \E ans \in ReplaceAnswers :
              /\ replace' = Clean(ans)
              /\ prompts' = Append(prompts, "replace")
       ELSE UNCHANGED <<replace, prompts>>
    /\ IF find = None \/ replace' = None
       THEN Exit(0, "cancelled")
       ELSE IF ~Truthy(find)
            THEN Exit(1, "empty_find")
            ELSE pc' = "confirm" /\ UNCHANGED <<exit_code, message>>
    /\ UNCHANGED << batch, regex, find, repos, display_repos, selected_repos, idx,
                    current_url, new_url, lines, sub_i, submodule_changes,
                    success_count, fail_count, skip_count, origin, gitmodules,
                    cmds, sub_failed, processed, set_urls, at_start,
                    regex_errors, checked, applied >>

\* lines 213-224: the confirmation (skipped in batch mode), then the
\* counters are zeroed and the loop starts
Confirm ==
    /\ pc = "confirm"
    /\ IF batch
       THEN /\ pc' = "get_url"
            /\ idx' = 1
            /\ UNCHANGED <<prompts, exit_code, message>>
       ELSE \E ans \in BOOLEAN :
              /\ prompts' = Append(prompts, "confirm")
              /\ IF ~ans
                 THEN Exit(0, "cancelled") /\ UNCHANGED idx
                 ELSE /\ pc' = "get_url"
                      /\ idx' = 1
                      /\ UNCHANGED <<exit_code, message>>
    /\ UNCHANGED << batch, regex, find, replace, repos, display_repos, selected_repos,
                    current_url, new_url, lines, sub_i, submodule_changes,
                    success_count, fail_count, skip_count, origin, gitmodules,
                    cmds, sub_failed, processed, set_urls, at_start,
                    regex_errors, checked, applied >>

\* lines 226-240, 259-261: the loop reaches a repository, reads its origin
\* URL and computes the new one.  What the repository holds (its origin,
\* whether it has a .gitmodules file) is drawn here, when the run first
\* looks at it.
GetUrl ==
    /\ pc = "get_url"
    /\ \E o \in OriginStates, g \in BOOLEAN :
         LET ok  == o # NoOrigin
             cur == Strip(o)
             new == GetNewUrl(cur, find, replace, regex)
         IN /\ origin' = [origin EXCEPT ![Root(Repo)] = o]
            /\ gitmodules' = g
            /\ cmds' = Append(cmds, Cmd("get-url", Repo, 0, <<>>, ok))
            /\ processed' = Append(processed, Repo)
            /\ at_start' = <<success_count, fail_count, skip_count>>
            /\ IF ~ok
               THEN /\ Tally(GetUrlFailedOutcome)
                    /\ pc' = AfterOriginPc("no_origin")
                    /\ UNCHANGED <<current_url, new_url, regex_errors>>
               ELSE /\ current_url' = cur
                    /\ new_url' = new
                    /\ regex_errors' = Reported
                    /\ IF UrlChanged(new, cur)
                       THEN /\ pc' = "set_url"
                            /\ UNCHANGED <<success_count, fail_count, skip_count>>
                       ELSE /\ Tally("skipped")
                            /\ pc' = AfterOriginPc("skipped")
    /\ UNCHANGED << batch, regex, find, replace, repos, display_repos, selected_repos, idx,
                    lines, sub_i, submodule_changes, exit_code, message,
                    sub_failed, set_urls, prompts, checked, applied >>

\* lines 241-246: set the new URL
SetUrl ==
    /\ pc = "set_url"
    /\ \E ok \in BOOLEAN :
         /\ cmds' = Append(cmds, Cmd("set-url", Repo, 0, new_url, ok))
         /\ origin' = IF ok THEN [origin EXCEPT ![Root(Repo)] = new_url] ELSE origin
         /\ set_urls' = IF ok THEN [set_urls EXCEPT ![Root(Repo)] = new_url] ELSE set_urls
         /\ IF ok
            THEN UNCHANGED <<success_count, fail_count, skip_count>>
            ELSE Tally("failed")
         /\ pc' = AfterSetUrlPc(ok)
    /\ UNCHANGED << batch, regex, find, replace, repos, display_repos, selected_repos, idx,
                    current_url, new_url, lines, sub_i, submodule_changes,
                    exit_code, message, gitmodules, sub_failed, processed,
                    at_start, prompts, checked, regex_errors, applied >>

\* lines 248-258: fetch from the new origin
Fetch ==
    /\ pc = "fetch"
    /\ \E ok \in BOOLEAN :
         /\ cmds' = Append(cmds, Cmd("fetch", Repo, 0, <<>>, ok))
         /\ Tally(FetchOutcome(ok))
         /\ pc' = AfterOriginPc("success")
    /\ UNCHANGED << batch, regex, find, replace, repos, display_repos, selected_repos, idx,
                    current_url, new_url, lines, sub_i, submodule_changes,
                    exit_code, message, origin, gitmodules, sub_failed, processed,
                    set_urls, at_start, prompts, checked, regex_errors, applied >>

\* lines 264-272: if .gitmodules exists, query its submodule URLs
Gitmodules ==
    /\ pc = "gitmodules"
    /\ IF ~gitmodules
       THEN /\ pc' = "next_repo"
            /\ UNCHANGED <<cmds, lines, sub_i, submodule_changes>>
       ELSE \E res \in QueryResults :
              /\ cmds' = Append(cmds, Cmd("config-query", Repo, 0, <<>>, res.ok))
              /\ submodule_changes' = FALSE
              /\ lines' = res.lines
              /\ sub_i' = 1
              /\ pc' = "sub_loop"
    /\ UNCHANGED << batch, regex, find, replace, repos, display_repos, selected_repos, idx,
                    current_url, new_url, success_count, fail_count, skip_count,
                    exit_code, message, origin, gitmodules, sub_failed, processed,
                    set_urls, at_start, prompts, checked, regex_errors, applied >>

\* lines 273-290: one line of the query: rewrite the submodule URL in
\* .gitmodules and in .git/config when it changes.  The results of the two
\* writes are dropped by the code; sub_failed remembers a failure.
SubStep ==
    /\ pc = "sub_loop"
    /\ sub_i <= Len(lines)
    /\ LET line == lines[sub_i]
           new  == GetNewUrl(line.url, find, replace, regex)
       IN IF ~line.sep
          THEN UNCHANGED <<cmds, submodule_changes, regex_errors, sub_failed>>
          ELSE /\ regex_errors' = Reported
               /\ IF UrlChanged(new, line.url)
                  THEN \E ok1 \in BOOLEAN, ok2 \in BOOLEAN :
                         /\ cmds' = cmds \o
                              << Cmd("config-gitmodules", Repo, line.key, new, ok1),
                                 Cmd("config-local", Repo, line.key, new, ok2) >>
                         /\ sub_failed' = (sub_failed \/ ~ok1 \/ ~ok2)
                         /\ submodule_changes' = TRUE
                  ELSE UNCHANGED <<cmds, submodule_changes, sub_failed>>
    /\ sub_i' = sub_i + 1
    /\ UNCHANGED << pc, batch, regex, find, replace, repos, display_repos, selected_repos,
                    idx, current_url, new_url, lines, success_count, fail_count,
                    skip_count, exit_code, message, origin, gitmodules, processed,
                    set_urls, at_start, prompts, checked, applied >>

\* lines 292-295: after the last line, sync once if anything changed
SubEnd ==
    /\ pc = "sub_loop"
    /\ sub_i > Len(lines)
    /\ IF submodule_changes
       THEN \E ok \in BOOLEAN :
              /\ cmds' = Append(cmds, Cmd("submodule-sync", Repo, 0, <<>>, ok))
              /\ sub_failed' = (sub_failed \/ ~ok)
       ELSE UNCHANGED <<cmds, sub_failed>>
    /\ pc' = "next_repo"
    /\ UNCHANGED << batch, regex, find, replace, repos, display_repos, selected_repos, idx,
                    current_url, new_url, lines, sub_i, submodule_changes,
                    success_count, fail_count, skip_count, exit_code, message,
                    origin, gitmodules, processed, set_urls, at_start, prompts, checked,
                    regex_errors, applied >>

\* lines 226, 297: the for loop moves on; after the last repository the
\* summary is printed and main returns.  The per-repository history and
\* the locals the next iteration overwrites before reading are cleared.
NextRepo ==
    /\ pc = "next_repo"
    /\ IF idx < Len(selected_repos)
       THEN /\ pc' = "get_url"
            /\ idx' = idx + 1
            /\ cmds' = <<>>
            /\ sub_failed' = FALSE
            /\ lines' = <<>>
            /\ sub_i' = 0
            /\ submodule_changes' = FALSE
            /\ current_url' = <<>>
            /\ new_url' = None
            /\ gitmodules' = FALSE
            /\ UNCHANGED <<exit_code, message>>
       ELSE /\ Exit(0, "done")
            /\ UNCHANGED <<idx, cmds, sub_failed, lines, sub_i, submodule_changes,
                           current_url, new_url, gitmodules>>
    /\ UNCHANGED << batch, regex, find, replace, repos, display_repos, selected_repos,
                    success_count, fail_count, skip_count, origin, processed,
                    set_urls, at_start, prompts, checked, regex_errors, applied >>

Next ==
    \/ Start
    \/ Normalise
    \/ Select
    \/ AskFind
    \/ AskReplace
    \/ Confirm
    \/ GetUrl
    \/ SetUrl
    \/ Fetch
    \/ Gitmodules
    \/ SubStep
    \/ SubEnd
    \/ NextRepo

Spec == Init /\ [][Next]_vars

\* ------------------------------------------------------------------------
\* Properties of main
\* ------------------------------------------------------------------------

OriginOps == {"get-url", "set-url", "fetch"}

WriteOps == {"config-gitmodules", "config-local"}

\* the positions in cmds of the commands named op
At(op) == {i \in DOMAIN cmds : cmds[i].op = op}

\* the loop is done with the repository it is at: cmds holds all its commands
RepoDone == pc = "next_repo" \/ (pc = "exit" /\ message = "done")

RunDone == pc = "exit" /\ message = "done"

IsPrefix(a, b) == Len(a) <= Len(b) /\ a = SubSeq(b, 1, Len(a))

\* C1: once set-url succeeded for a repository its origin is the new
\* (non-empty, different) URL and stays so, and the repository adds exactly
\* one to the success counter, and nothing to the others, whether the fetch
\* succeeds or fails; a run in which every repository was rewritten ends with
\* success = number of repositories.
C1_UrlUpdateCountsAsSuccess ==
    /\ \A r \in Repos : set_urls[r] # None => origin[r] = set_urls[r]
    /\ success_count + (IF pc = "fetch" THEN 1 ELSE 0)
         = Cardinality({r \in Repos : set_urls[r] # None})
    /\ \A i \in At("set-url") :
         cmds[i].ok => /\ Truthy(cmds[i].arg)
                       /\ cmds[i].arg # current_url
                       /\ set_urls[Root(Repo)] = cmds[i].arg
    /\ (RepoDone /\ \E i \in At("set-url") : cmds[i].ok)
         => /\ At("fetch") # {}
            /\ success_count = at_start[1] + 1
            /\ fail_count = at_start[2]
            /\ skip_count = at_start[3]
    /\ (RunDone /\ \A i \in DOMAIN selected_repos : set_urls[Root(selected_repos[i])] # None)
         => success_count = Len(selected_repos)

\* a batch run over two repositories, both rewritten, the last fetch failed
C1_Witness ==
    /\ RunDone
    /\ batch
    /\ Len(selected_repos) = 2
    /\ success_count = 2
    /\ fail_count = 0
    /\ \E i \in At("fetch") : ~cmds[i].ok

\* C2: a repository with a .gitmodules file gets the submodule URL query,
\* after every origin command of that repository, whatever the origin
\* outcome was.
C2_SubmodulesAfterOrigin ==
    (RepoDone /\ gitmodules)
        => \E k \in At("config-query") :
             /\ cmds[k].cwd = Repo
             /\ \A m \in DOMAIN cmds : cmds[m].op \in OriginOps => m < k

\* no origin remote, and the query was issued all the same
C2_Witness ==
    /\ pc = "next_repo"
    /\ gitmodules
    /\ cmds[1].op = "get-url"
    /\ ~cmds[1].ok
    /\ At("config-query") = {2}

\* C3 as claimed: with an invalid regex nothing is processed: no git command
\* is issued, no counter moves, and the error is reported at most once.
C3_InvalidRegexIsFatal ==
    RegexError(find, regex)
        => /\ processed = <<>>
           /\ cmds = <<>>
           /\ regex_errors <= 1
           /\ success_count = 0 /\ fail_count = 0 /\ skip_count = 0

\* C4 as claimed: the three counters add up to the number of repositories
\* processed, a failing get-url being a skip.
C4_EveryRepositoryCounted ==
    LET sum == success_count + fail_count + skip_count IN
    /\ pc = "next_repo" => sum = idx
    /\ pc = "get_url" => sum + 1 = idx
    /\ RunDone => sum = Len(selected_repos)
    /\ (RepoDone /\ \E i \in At("get-url") : ~cmds[i].ok) => skip_count = at_start[3] + 1

\* the writes a list of query lines calls for: per line whose rewritten URL
\* differs from its URL (and, if non_empty, is not ""), the .gitmodules write
\* and then the local config write
RECURSIVE ExpectedWrites(_, _, _)
ExpectedWrites(i, n, non_empty) ==
    IF i > n THEN <<>>
    ELSE LET line == lines[i]
             new  == GetNewUrl(line.url, find, replace, regex)
             hit  == /\ line.sep
                     /\ new # None
                     /\ new # line.url
                     /\ non_empty => new # <<>>
         IN (IF hit THEN << <<"config-gitmodules", line.key, new>>,
                            <<"config-local", line.key, new>> >>
             ELSE <<>>) \o ExpectedWrites(i + 1, n, non_empty)

IsWrite(c) == c.op \in WriteOps

\* the submodule writes issued for this repository, in order
Writes == SelectSeq(cmds, IsWrite)

WriteShapes == [i \in DOMAIN Writes |-> <<Writes[i].op, Writes[i].key, Writes[i].arg>>]

\* the lines of the query handled so far
LinesHandled == IF pc = "sub_loop" THEN sub_i - 1 ELSE Len(lines)

SubmoduleTask(non_empty) ==
    (pc = "sub_loop" \/ RepoDone)
        => /\ WriteShapes = ExpectedWrites(1, LinesHandled, non_empty)
           /\ At("submodule-sync") =
                IF RepoDone /\ ExpectedWrites(1, Len(lines), non_empty) # <<>>
                THEN {Len(cmds)} ELSE {}

\* C5 as amended: for each key, url pair whose rewritten URL is non-empty
\* and differs from url, both writes are issued (.gitmodules first, then the
\* local config), failed or not; and submodule sync runs exactly once, after
\* all the writes, iff there is such a pair.
C5_WritesAndOneSync == SubmoduleTask(TRUE)

\* C5 as claimed: the same for each pair whose rewritten URL differs from
\* url, the empty URL included.
C5_AsClaimed == SubmoduleTask(FALSE)

\* two submodules rewritten, the first write failed, one sync at the end
C5_Witness ==
    /\ pc = "next_repo"
    /\ Len(Writes) = 4
    /\ ~Writes[1].ok
    /\ sub_failed
    /\ At("submodule-sync") = {Len(cmds)}

\* what C6 says of both modes, but for the prompts of batch mode
SelectedOnly ==
    /\ \A i \in DOMAIN cmds : cmds[i].cwd \in Range(selected_repos)
    /\ Range(processed) \subseteq Range(selected_repos)
    /\ (~batch /\ processed # <<>>)
         => /\ selected_repos = checked
            /\ "checkbox" \in Range(prompts)
            /\ prompts[Len(prompts)] = "confirm"
    /\ (pc = "exit" /\ message \in {"cancelled", "none_selected"})
         => /\ exit_code = 0
            /\ processed = <<>>
            /\ cmds = <<>>
    /\ (batch /\ RunDone) => processed = display_repos

\* C6 as amended: git commands are issued only in selected and confirmed
\* repositories; a cancelled or empty selection, a cancelled find/replace
\* prompt or a declined confirmation ends the run with exit code 0 and no
\* git command; batch mode processes every discovered repository and shows
\* neither the selection nor the confirmation (it still prompts for a find
\* or replace that was not given).
C6_OnlySelectedAndConfirmed ==
    /\ SelectedOnly
    /\ batch => ("checkbox" \notin Range(prompts) /\ "confirm" \notin Range(prompts))

\* C6 as claimed: batch mode shows no prompt at all.
C6_AsClaimed ==
    /\ SelectedOnly
    /\ batch => prompts = <<>>

\* two repositories found, one unchecked, only the other one processed
C6_Witness ==
    /\ RunDone
    /\ ~batch
    /\ Len(display_repos) = 2
    /\ Len(checked) = 1
    /\ processed = checked

\* C7: a failed set-url adds one to the failed counter and nothing to the
\* others, no fetch follows for that repository, and the run goes on with
\* the repository's submodules.
C7_SetUrlFailureCountsFailed ==
    \A i \in At("set-url") :
        ~cmds[i].ok
            => /\ At("fetch") = {}
               /\ fail_count = at_start[2] + 1
               /\ success_count = at_start[1]
               /\ skip_count = at_start[3]
               /\ set_urls[Root(Repo)] = None
               /\ \/ pc \in {"gitmodules", "sub_loop", "next_repo"}
                  \/ RunDone /\ exit_code = 0

\* set-url failed, the submodule query followed, another repository is next
C7_Witness ==
    /\ pc = "next_repo"
    /\ \E i \in At("set-url") : ~cmds[i].ok
    /\ At("config-query") # {}
    /\ fail_count = 1
    /\ idx < Len(selected_repos)

\* C10: the discovered paths collapse to distinct entries, the loop takes
\* the selected entries one by one in order, each once, every command is
\* issued for the entry the loop is at, and once the loop has started the
\* run ends only after the last selected entry, whatever failed.
C10_EachRepositoryOnceInOrder ==
    /\ \A i, j \in DOMAIN display_repos : i # j => display_repos[i] # display_repos[j]
    /\ pc = "select"
         => {Root(p) : p \in Range(display_repos)} = {Root(p) : p \in Range(repos)}
    /\ IsPrefix(processed, selected_repos)
    /\ \A i, j \in DOMAIN processed : i # j => Root(processed[i]) # Root(processed[j])
    /\ \A i \in DOMAIN cmds : cmds[i].cwd = processed[Len(processed)]
    /\ pc \in {"set_url", "fetch", "gitmodules", "sub_loop", "next_repo"}
         => Len(processed) = idx
    /\ pc = "get_url" => Len(processed) + 1 = idx
    /\ RunDone => processed = selected_repos
    /\ (pc = "exit" /\ processed # <<>>) => (message = "done" /\ exit_code = 0)

\* two entries; set-url failed in the first repository and the second was
\* processed to the end
C10_Witness ==
    /\ RunDone
    /\ Len(processed) = 2
    /\ fail_count = 1
    /\ At("set-url") = {}
    /\ At("get-url") = {1}

\* ------------------------------------------------------------------------
\* get_new_url on its own: every short literal-mode input, applied once and
\* then once more to its own result (what a second run of the tool does)
\* ------------------------------------------------------------------------

\* the characters of the enumerated strings
FnChars == {"a", "/"}

StringsUpTo(n) == UNION {[1..k -> FnChars] : k \in 0..n}

InitFn ==
    /\ pc = "fn_start"
    /\ batch = TRUE
    /\ regex = FALSE
    /\ find \in StringsUpTo(MaxPatLen) \ {<<>>}
    /\ replace \in StringsUpTo(MaxPatLen)
    /\ current_url \in StringsUpTo(MaxUrlLen)
    /\ repos = <<>>
    /\ display_repos = <<>>
    /\ selected_repos = <<>>
    /\ idx = 0
    /\ new_url = None
    /\ lines = <<>>
    /\ sub_i = 0
    /\ submodule_changes = FALSE
    /\ success_count = 0
    /\ fail_count = 0
    /\ skip_count = 0
    /\ exit_code = NoExit
    /\ message = ""
    /\ origin = [r \in Repos |-> NotRead]
    /\ gitmodules = FALSE
    /\ cmds = <<>>
    /\ sub_failed = FALSE
    /\ processed = <<>>
    /\ set_urls = [r \in Repos |-> None]
    /\ at_start = <<0, 0, 0>>
    /\ prompts = <<>>
    /\ checked = <<>>
    /\ regex_errors = 0
    /\ applied = <<>>

\* get_new_url(current_url, find, replace, regex)
FnApply ==
    /\ pc = "fn_start"
    /\ pc' = "fn_once"
    /\ new_url' = GetNewUrl(current_url, find, replace, regex)
    /\ applied' = <<new_url'>>
    /\ UNCHANGED << batch, regex, find, replace, repos, display_repos,
                    selected_repos, idx, current_url, lines, sub_i,
                    submodule_changes, success_count, fail_count, skip_count,
                    exit_code, message, origin, gitmodules, cmds, sub_failed,
                    processed, set_urls, at_start, prompts, checked, regex_errors >>

\* get_new_url applied to its own result (to current_url again when the
\* first application returned None)
FnReapply ==
    /\ pc = "fn_once"
    /\ pc' = "fn_twice"
    /\ new_url' = GetNewUrl(IF applied[1] = None THEN current_url ELSE applied[1],
                            find, replace, regex)
    /\ applied' = Append(applied, new_url')
    /\ UNCHANGED << batch, regex, find, replace, repos, display_repos,
                    selected_repos, idx, current_url, lines, sub_i,
                    submodule_changes, success_count, fail_count, skip_count,
                    exit_code, message, origin, gitmodules, cmds, sub_failed,
                    processed, set_urls, at_start, prompts, checked, regex_errors >>

NextFn ==
    \/ FnApply
    \/ FnReapply

SpecFn == InitFn /\ [][NextFn]_vars

\* ------------------------------------------------------------------------
\* What "every occurrence replaced" means, stated on the positions and not
\* by a scan: the occurrences taken are the leftmost ones that do not
\* overlap an occurrence already taken
\* ------------------------------------------------------------------------

Occurrences(s, f) ==
    {i \in 1..Len(s) : i + Len(f) - 1 <= Len(s) /\ SubSeq(s, i, i + Len(f) - 1) = f}

Taken(s, f) ==
    CHOOSE C \in SUBSET Occurrences(s, f) :
        \A i \in Occurrences(s, f) :
            (i \in C) <=> ~(\E j \in C : j < i /\ i < j + Len(f))

RECURSIVE Flatten(_, _)
Flatten(pieces, i) ==
    IF i > Len(pieces) THEN <<>> ELSE pieces[i] \o Flatten(pieces, i + 1)

EveryOccurrenceReplaced(s, f, r) ==
    LET C == Taken(s, f)
        piece(i) == IF i \in C THEN r
                    ELSE IF \E j \in C : j < i /\ i < j + Len(f) THEN <<>>
                    ELSE <<s[i]>>
    IN Flatten([i \in 1..Len(s) |-> piece(i)], 1)

\* f without any of its trailing slashes
SlashFree(f) ==
    LET n == CHOOSE k \in 0..Len(f) :
                 /\ k = 0 \/ f[k] # "/"
                 /\ \A m \in (k + 1)..Len(f) : f[m] = "/"
    IN SubSeq(f, 1, n)

\* f without its last character
OneSlashOff(f) == SubSeq(f, 1, Len(f) - 1)

\* the literal-mode result the specification describes, given what "find
\* with the trailing slash stripped" is
LiteralResult(current, f, r, stripped) ==
    IF Occurrences(current, f) # {} THEN EveryOccurrenceReplaced(current, f, r)
    ELSE IF f[Len(f)] = "/" /\ stripped # <<>> /\ Occurrences(current, stripped) # {}
         THEN EveryOccurrenceReplaced(current, stripped, r)
         ELSE None

\* get_new_url has been applied to (current_url, find, replace)
FnApplied == pc \in {"fn_once", "fn_twice"}

Idempotent == applied[2] = None \/ applied[2] = applied[1]

\* C9 as amended: when find occurs in current, get_new_url replaces every
\* occurrence, and a second application changes nothing only if replace does
\* not contain find or replace equals find (the rewrite is then the identity).
C9_IdempotentOnlyIfNoFindInReplace ==
    (pc = "fn_twice" /\ ~regex /\ Occurrences(current_url, find) # {})
        => /\ applied[1] = EveryOccurrenceReplaced(current_url, find, replace)
           /\ Idempotent => (Occurrences(replace, find) = {} \/ replace = find)

\* C9 as claimed: a second application changes nothing only if replace does
\* not contain find.
C9_AsClaimed ==
    (pc = "fn_twice" /\ ~regex /\ Occurrences(current_url, find) # {})
        => /\ applied[1] = EveryOccurrenceReplaced(current_url, find, replace)
           /\ Idempotent => Occurrences(replace, find) = {}

\* two occurrences replaced, and replace holds find: the second application
\* rewrites again
C9_Witness ==
    /\ pc = "fn_twice"
    /\ current_url = <<"a", "/", "a">>
    /\ find = <<"a">>
    /\ replace = <<"a", "a">>
    /\ applied[1] = <<"a", "a", "/", "a", "a">>
    /\ applied[2] # applied[1]

====
